---- MODULE Spec2Model ----
(***************************************************************************)
(* SliceMaster 640: the image pipeline of services/imageProcessor          *)
(* (loadImage, resizeImageTo640, processSlices) and the React state of     *)
(* App.tsx that drives it (handleFileChange, handleProcess).               *)
(*                                                                         *)
(* A raster is modelled by its dimensions and, for every drawImage call,   *)
(* by the band of source rows that was copied and where it landed; pixel   *)
(* colours are not modelled.                                               *)
(***************************************************************************)
EXTENDS Integers, Sequences, FiniteSets, TLC

VARIABLES
    images,        \* the File objects picked so far: images[f] is what file f decodes to
    file,          \* App state `file`: 0 (null) or the id of the selected file
    canvas,        \* App state `canvas`: NoCanvas (null) or the normalized raster
    slices,        \* App state `slices`: the displayed SliceResult list
    shown,         \* history: the file whose raster the displayed slices were cut from
    isProcessing,  \* App state `isProcessing`
    loads,         \* handleFileChange invocations suspended in `await loadImage`
    alerts,        \* the alert() messages raised so far
    run            \* the handleProcess / processSlices invocation in flight (or the last one)

vars == <<images, file, canvas, slices, shown, isProcessing, loads, alerts, run>>

----------------------------------------------------------------------------
(* Bounds of the model *)

\* how many times a file is picked in the UI specification
MaxSelections == 2
\* source image sizes of the resize specification: 0..MaxImgW x 0..MaxImgH
MaxImgW == 40
MaxImgH == 120
\* raster heights and split lines of the slicing specification lie within
\* Delta of a multiple of m3Height, up to MaxAnchor multiples
Delta == 1
MaxAnchor == 8

----------------------------------------------------------------------------
(* Program constants *)

targetWidth == 640
splitY1 == 640
m3Height == 160
SPLIT_Y1 == 640
m4Width == 640
m4Height == 480

Min(a, b) == IF a < b THEN a ELSE b
Max(a, b) == IF a > b THEN a ELSE b

NoCanvas == [width |-> -1, height |-> -1, of |-> 0]
NoRun == [pc |-> "idle"]

----------------------------------------------------------------------------
(* JavaScript number arithmetic of resizeImageTo640 (IEEE 754 binary64,    *)
(* round to nearest, ties to even).                                        *)
(* A finite positive double is [kind |-> "fin", m, exp]: m is an integer   *)
(* written in five limbs of 13 bits, most significant first, and the value *)
(* is m * 2^exp.  A normalized significand (53 bits) has m[1] = 1.         *)

Base == 2^13
FracBits == 4 * 13

Zero == [kind |-> "zero"]
Infinity == [kind |-> "inf"]
NaN == [kind |-> "nan"]

\* scale a/b by a power of two into [1, 2): <<a', b', e>> with a/b = (a'/b') * 2^e
RECURSIVE Normalize(_, _, _)
Normalize(a, b, e) ==
    IF a >= 2 * b THEN Normalize(a, 2 * b, e + 1)
    ELSE IF a < b THEN Normalize(2 * a, b, e - 1)
    ELSE <<a, b, e>>

\* m + amt, carries propagated through the limbs (the top limb is left unreduced)
AddLow(m, amt) ==
    LET s5 == m[5] + amt
        s4 == m[4] + (s5 \div Base)
        s3 == m[3] + (s4 \div Base)
        s2 == m[2] + (s3 \div Base)
    IN  <<m[1] + (s2 \div Base), s2 % Base, s3 % Base, s4 % Base, s5 % Base>>

\* the double nearest to a / b, for integers a >= 0, b >= 0
DoubleDiv(a, b) ==
    IF b = 0 THEN (IF a = 0 THEN NaN ELSE Infinity)
    ELSE IF a = 0 THEN Zero
    ELSE LET n == Normalize(a, b, 0)
             d == n[2]
             r0 == n[1] - d
             l1 == (r0 * Base) \div d
             r1 == (r0 * Base) % d
             l2 == (r1 * Base) \div d
             r2 == (r1 * Base) % d
             l3 == (r2 * Base) \div d
             r3 == (r2 * Base) % d
             l4 == (r3 * Base) \div d
             r4 == (r3 * Base) % d
             guard == 2 * r4 >= d
             sticky == (IF guard THEN 2 * r4 - d ELSE 2 * r4) # 0
             up == guard /\ (sticky \/ l4 % 2 = 1)
             m == AddLow(<<1, l1, l2, l3, l4>>, IF up THEN 1 ELSE 0)
         IN  IF m[1] = 2
             THEN [kind |-> "fin", m |-> <<1, 0, 0, 0, 0>>, exp |-> n[3] + 1 - FracBits]
             ELSE [kind |-> "fin", m |-> m, exp |-> n[3] - FracBits]

\* the double nearest to h * d, for an integer 0 <= h < Base and a double d >= 0
\* with a normalized significand
DoubleMul(h, d) ==
    IF d.kind = "nan" THEN NaN
    ELSE IF d.kind = "inf" THEN (IF h = 0 THEN NaN ELSE Infinity)
    ELSE IF d.kind = "zero" \/ h = 0 THEN Zero
    ELSE LET t5 == d.m[5] * h
             t4 == d.m[4] * h + (t5 \div Base)
             t3 == d.m[3] * h + (t4 \div Base)
             t2 == d.m[2] * h + (t3 \div Base)
             top == d.m[1] * h + (t2 \div Base)
             q2 == t2 % Base
             q3 == t3 % Base
             q4 == t4 % Base
             q5 == t5 % Base
             \* the exact product has 53 + k bits: its low k bits are rounded away
             k == CHOOSE j \in 0..13 : 2^j <= top /\ top < 2^(j + 1)
             low == q5 % (2^k)
             half == IF k = 0 THEN 1 ELSE 2^(k - 1)
             guard == k >= 1 /\ low >= half
             sticky == k >= 1 /\ low % half # 0
             lsb == IF k < 13 THEN (q5 \div 2^k) % 2 ELSE q4 % 2
             up == guard /\ (sticky \/ lsb = 1)
         IN  [kind |-> "fin",
              m |-> AddLow(<<top, q2, q3, q4, q5 - low>>, IF up THEN 2^k ELSE 0),
              exp |-> d.exp]

\* assignment of a number to canvas.height (an unsigned long attribute): NaN and
\* the infinities become 0, a finite value is truncated toward zero.  640 < 2^10,
\* so exp <= 9 - 52 here, and the values of this model stay far below 2^32, where
\* the conversion would wrap.
ToUnsignedLong(d) ==
    IF d.kind # "fin" THEN 0
    ELSE LET sh == 0 - d.exp
         IN  IF sh >= FracBits THEN d.m[1] \div 2^(sh - FracBits)
             ELSE (d.m[1] * Base + d.m[2]) \div 2^(sh - 3 * 13)

----------------------------------------------------------------------------
(* services/imageProcessor: resizeImageTo640 *)

\* the image a File decodes to: ok is whether the browser can decode it
\* (img.onload fires) or not (img.onerror fires); w, h are img.width, img.height
Image(w, h, ok) == [w |-> w, h |-> h, ok |-> ok]

\* a plausible variant: the target height rounded to the nearest integer
resizeRounded(img) ==
    [width |-> targetWidth,
     height |-> IF img.w = 0 THEN 0
                ELSE (2 * img.h * targetWidth + img.w) \div (2 * img.w)]

resizeImageTo640(img) ==
    LET scaleFactor == DoubleDiv(targetWidth, img.w)
        targetHeight == DoubleMul(img.h, scaleFactor)
    IN  [width |-> targetWidth, height |-> ToUnsignedLong(targetHeight)]

----------------------------------------------------------------------------
(* services/imageProcessor: processSlices *)

RegionIds == {"m_1", "m_2", "m_3", "m_4", "m_5", "m_6"}

\* `${name}.png`
FileName(id) == id \o ".png"

\* the UTF-16 code units of the six file names
CodeUnits(name) ==
    LET digit == CASE name = "m_1.png" -> 49 [] name = "m_2.png" -> 50
                   [] name = "m_3.png" -> 51 [] name = "m_4.png" -> 52
                   [] name = "m_5.png" -> 53 [] name = "m_6.png" -> 54
    IN  <<109, 95, digit, 46, 112, 110, 103>>

\* a.localeCompare(b): negative, zero or positive.  The names are ASCII and of
\* the same shape, and collation orders them by the first differing unit.
RECURSIVE CompareUnits(_, _)
CompareUnits(a, b) ==
    IF a = <<>> /\ b = <<>> THEN 0
    ELSE IF a = <<>> THEN -1
    ELSE IF b = <<>> THEN 1
    ELSE IF Head(a) < Head(b) THEN -1
    ELSE IF Head(a) > Head(b) THEN 1
    ELSE CompareUnits(Tail(a), Tail(b))

localeCompare(a, b) == CompareUnits(CodeUnits(a), CodeUnits(b))

\* stable insertion of x into a list sorted by name
RECURSIVE InsertByName(_, _)
InsertByName(s, x) ==
    IF s = <<>> THEN <<x>>
    ELSE IF localeCompare(Head(s).name, x.name) <= 0
         THEN <<Head(s)>> \o InsertByName(Tail(s), x)
         ELSE <<x>> \o s

RECURSIVE SortedByName(_)
SortedByName(s) ==
    IF s = <<>> THEN <<>>
    ELSE InsertByName(SortedByName(SubSeq(s, 1, Len(s) - 1)), s[Len(s)])

\* a plausible variant: the list returned in extraction order
sortOmitted(s) == s

\* slices.sort((a, b) => a.name.localeCompare(b.name))
sortSlices(s) == SortedByName(s)

\* ctx.drawImage(source, sx, sy, sw, sh, dx, dy, sw, sh): the source rectangle is
\* clipped to the source raster and the destination rectangle with it.  The
\* result is the band of rows copied: n rows, source rows sy .. sy + n - 1, to
\* destination rows dy .. dy + n - 1, columns sx .. sx + w - 1.
drawImage(source, sx, sy, sw, sh, dx, dy) ==
    LET y0 == Max(sy, 0)
        y1 == Min(sy + sh, source.height)
        x0 == Max(sx, 0)
        x1 == Min(sx + sw, source.width)
        n == IF x1 > x0 THEN Max(y1 - y0, 0) ELSE 0
    IN  [sx |-> x0, w |-> Max(x1 - x0, 0), sy |-> y0, n |-> n,
         dx |-> dx + (x0 - sx), dy |-> dy + (y0 - sy)]

NoDraw == [sx |-> 0, w |-> 0, sy |-> 0, n |-> 0, dx |-> 0, dy |-> 0]

SliceResult(name, w, h, x, y) ==
    [id |-> name, name |-> FileName(name), width |-> w, height |-> h, x |-> x, y |-> y]

\* the helper `extract` of processSlices, applied to the invocation r; blob is
\* whether c.toBlob hands the callback a blob (TRUE) or null (FALSE)
extract(r, x, y, w, h, name, blob) ==
    IF h <= 0 \/ w <= 0 THEN r
    ELSE [r EXCEPT
            !.rasters = Append(@, [name |-> name, width |-> w, height |-> h,
                                   drawn |-> drawImage(r.sourceCanvas, x, y, w, h, 0, 0)]),
            !.slices = IF blob THEN Append(@, SliceResult(name, w, h, x, y)) ELSE @]

totalHeight(r) == r.sourceCanvas.height

\* a plausible variant: the top group not clamped to the first cut line
topHeightUnclamped(r) == totalHeight(r)

topHeight(r) == Min(splitY1, totalHeight(r))
midStart == splitY1
midEnd(r) == Min(r.splitY2, totalHeight(r))
midHeight(r) == midEnd(r) - midStart

\* a plausible variant: the bottom band starts at the split line, unclamped
botStartUnclamped(r) == r.splitY2

botStart(r) == midEnd(r)
availableHeight(r) == totalHeight(r) - botStart(r)

\* a fresh invocation of processSlices(sourceCanvas, splitY2)
NewRun(sourceCanvas, splitY2, pc) ==
    [pc |-> pc, sourceCanvas |-> sourceCanvas, splitY2 |-> splitY2,
     slices |-> <<>>, rasters |-> <<>>, result |-> <<>>]

UIUnchanged == UNCHANGED <<images, file, canvas, loads, alerts>>

\* await extract(0, 0, 80, topHeight, 'm_5')
ExtractM5(blob) ==
    /\ run.pc = "m_5"
    /\ run' = [extract(run, 0, 0, 80, topHeight(run), "m_5", blob) EXCEPT !.pc = "m_6"]
    /\ UIUnchanged /\ UNCHANGED <<slices, shown, isProcessing>>

\* await extract(560, 0, 80, topHeight, 'm_6')
ExtractM6(blob) ==
    /\ run.pc = "m_6"
    /\ run' = [extract(run, 560, 0, 80, topHeight(run), "m_6", blob) EXCEPT !.pc = "m_1"]
    /\ UIUnchanged /\ UNCHANGED <<slices, shown, isProcessing>>

\* await extract(80, 0, 240, topHeight, 'm_1')
ExtractM1(blob) ==
    /\ run.pc = "m_1"
    /\ run' = [extract(run, 80, 0, 240, topHeight(run), "m_1", blob) EXCEPT !.pc = "m_2"]
    /\ UIUnchanged /\ UNCHANGED <<slices, shown, isProcessing>>

\* await extract(320, 0, 240, topHeight, 'm_2')
ExtractM2(blob) ==
    /\ run.pc = "m_2"
    /\ run' = [extract(run, 320, 0, 240, topHeight(run), "m_2", blob) EXCEPT !.pc = "m_3"]
    /\ UIUnchanged /\ UNCHANGED <<slices, shown, isProcessing>>

\* if (midHeight > 0) await extract(0, midStart, 640, midHeight, 'm_3')
ExtractM3(blob) ==
    /\ run.pc = "m_3"
    /\ run' = IF midHeight(run) > 0
              THEN [extract(run, 0, midStart, 640, midHeight(run), "m_3", blob)
                      EXCEPT !.pc = "m_4"]
              ELSE [run EXCEPT !.pc = "m_4"]
    /\ UIUnchanged /\ UNCHANGED <<slices, shown, isProcessing>>

\* Part 3 of processSlices: the fixed 640x480 canvas c4, the copy of what the
\* source still has below botStart, and c4.toBlob
bottom(r, blob) ==
    LET c4 == [name |-> "m_4", width |-> m4Width, height |-> m4Height,
               drawn |-> IF availableHeight(r) > 0
                         THEN LET h == Min(availableHeight(r), m4Height)
                              IN  drawImage(r.sourceCanvas, 0, botStart(r), m4Width, h, 0, 0)
                         ELSE NoDraw]
    IN  [r EXCEPT
           !.rasters = Append(@, c4),
           !.slices = IF blob
                      THEN Append(@, SliceResult("m_4", m4Width, m4Height, 0, botStart(r)))
                      ELSE @]

\* drawImage throws InvalidStateError when its source is a canvas with a zero
\* dimension.  Only the m_4 copy can meet one: extract draws only when h > 0, and
\* then the source is at least as high as the band it cuts.
InvalidState(source) == source.width = 0 \/ source.height = 0

\* Part 3 of processSlices, to its end.  Either cx4.drawImage throws: processSlices
\* rejects, and handleProcess alerts in its catch block; or the m_4 toBlob callback
\* runs: processSlices sorts and returns, and handleProcess resumes in the same
\* turn with setSlices(result).  Either way, finally setIsProcessing(false).
ExtractM4(blob) ==
    /\ run.pc = "m_4"
    /\ IF availableHeight(run) > 0 /\ InvalidState(run.sourceCanvas)
       THEN /\ run' = [run EXCEPT !.pc = "thrown"]
            /\ alerts' = alerts \cup {[msg |-> "Error processing slices",
                                       f |-> run.sourceCanvas.of]}
            /\ UNCHANGED <<slices, shown>>
       ELSE LET r == bottom(run, blob)
                result == sortSlices(r.slices)
            IN  /\ run' = [r EXCEPT !.pc = "returned", !.result = result]
                /\ slices' = result
                /\ shown' = IF result = <<>> THEN 0 ELSE run.sourceCanvas.of
                /\ UNCHANGED alerts
    /\ isProcessing' = FALSE
    /\ UNCHANGED <<images, file, canvas, loads>>

----------------------------------------------------------------------------
(* App.tsx: handleFileChange and handleProcess *)

\* the files the operator can pick in the UI specification: scenario B's tall
\* image, an image of height 0, and a file the browser cannot decode
UIImages == {Image(640, 900, TRUE), Image(640, 0, TRUE), Image(0, 0, FALSE)}

\* handleFileChange up to `await loadImage(selectedFile)`
SelectFile(img) ==
    /\ Len(images) < MaxSelections
    /\ images' = Append(images, img)
    /\ file' = Len(images) + 1
    /\ slices' = <<>>
    /\ shown' = 0
    /\ loads' = loads \cup {Len(images) + 1}
    /\ UNCHANGED <<canvas, isProcessing, alerts, run>>

\* img.onload: loadImage resolves, resizeImageTo640 runs, setCanvas(resizedCanvas)
LoadResolved(f) ==
    /\ f \in loads
    /\ images[f].ok
    /\ LET resizedCanvas == resizeImageTo640(images[f])
       IN  canvas' = [width |-> resizedCanvas.width, height |-> resizedCanvas.height,
                      of |-> f]
    /\ loads' = loads \ {f}
    /\ UNCHANGED <<images, file, slices, shown, isProcessing, alerts, run>>

\* img.onerror: loadImage rejects, the catch block alerts
LoadRejected(f) ==
    /\ f \in loads
    /\ ~images[f].ok
    /\ alerts' = alerts \cup {[msg |-> "Could not load image. Please try another file.",
                               f |-> f]}
    /\ loads' = loads \ {f}
    /\ UNCHANGED <<images, file, canvas, slices, shown, isProcessing, run>>

\* a click on "Split Image" (enabled when file is set and nothing is processing):
\* handleProcess up to the 100 ms delay
HandleProcess ==
    /\ file # 0
    /\ ~isProcessing
    /\ canvas # NoCanvas
    /\ isProcessing' = TRUE
    /\ run' = NewRun(canvas, SPLIT_Y1 + m3Height, "delay")
    /\ UNCHANGED <<images, file, canvas, slices, shown, loads, alerts>>

\* the delay elapses and processSlices(canvas, splitY2) is entered
DelayElapsed ==
    /\ run.pc = "delay"
    /\ run' = [run EXCEPT !.pc = "m_5"]
    /\ UNCHANGED <<images, file, canvas, slices, shown, isProcessing, loads, alerts>>

ProcessStep ==
    \E blob \in BOOLEAN :
        \/ ExtractM5(blob)
        \/ ExtractM6(blob)
        \/ ExtractM1(blob)
        \/ ExtractM2(blob)
        \/ ExtractM3(blob)
        \/ ExtractM4(blob)

----------------------------------------------------------------------------
(* The application: files are picked, loaded and split *)

Init ==
    /\ images = <<>>
    /\ file = 0
    /\ canvas = NoCanvas
    /\ slices = <<>>
    /\ shown = 0
    /\ isProcessing = FALSE
    /\ loads = {}
    /\ alerts = {}
    /\ run = NoRun

Next ==
    \/ \E img \in UIImages : SelectFile(img)
    \/ \E f \in loads : LoadResolved(f)
    \/ \E f \in loads : LoadRejected(f)
    \/ HandleProcess
    \/ DelayElapsed
    \/ ProcessStep

Spec == Init /\ [][Next]_vars

----------------------------------------------------------------------------
(* processSlices on every normalized raster height and split line of the   *)
(* bounded sets                                                            *)

Anchors == {k * m3Height : k \in 0..MaxAnchor}
\* 900 is the raster height of scenario B, which the UI specification also uses
Heights == ({a + d : a \in Anchors, d \in (-Delta)..Delta} \cup {900}) \cap Nat
SplitYs == {a + d : a \in Anchors, d \in (-Delta)..Delta}
             \cup {d - a : a \in {b \in Anchors : b <= splitY1}, d \in (-Delta)..Delta}

InitSlices ==
    /\ images = <<>>
    /\ file = 0
    /\ slices = <<>>
    /\ shown = 0
    /\ isProcessing = TRUE
    /\ loads = {}
    /\ alerts = {}
    /\ \E h \in Heights, s \in SplitYs :
          /\ canvas = [width |-> targetWidth, height |-> h, of |-> 0]
          /\ run = NewRun(canvas, s, "m_5")

NextSlices == ProcessStep

SpecSlices == InitSlices /\ [][NextSlices]_vars

----------------------------------------------------------------------------
(* resizeImageTo640 on every source image of the bounded sets *)

ResizeImages ==
    {Image(w, h, TRUE) : w \in 0..MaxImgW, h \in 0..MaxImgH} \cup {Image(0, 0, FALSE)}

InitResize ==
    /\ \E img \in ResizeImages : images = <<img>>
    /\ file = 1
    /\ canvas = NoCanvas
    /\ slices = <<>>
    /\ shown = 0
    /\ isProcessing = FALSE
    /\ loads = {1}
    /\ alerts = {}
    /\ run = NoRun

NextResize ==
    \/ \E f \in loads : LoadResolved(f)
    \/ \E f \in loads : LoadRejected(f)

SpecResize == InitResize /\ [][NextResize]_vars

----------------------------------------------------------------------------
(* Properties of processSlices (checked under SpecSlices)                  *)

Returned == run.pc = "returned"
InFlight == run.pc \notin {"idle", "delay", "thrown"}

\* the inputs of the invocation
H == run.sourceCanvas.height
S == run.splitY2

\* the slices of the returned list that carry a given file name
Named(name) == {i \in 1..Len(run.result) : run.result[i].name = name}

\* the canvases created for a region so far
RastersOf(id) == {i \in 1..Len(run.rasters) : run.rasters[i].name = id}

\* the source rows copied into the canvases of a set of regions
RowsRead(ids) ==
    UNION {run.rasters[i].drawn.sy .. (run.rasters[i].drawn.sy + run.rasters[i].drawn.n - 1) :
             i \in {j \in 1..Len(run.rasters) : run.rasters[j].name \in ids}}

TopGroup == {"m_1", "m_2", "m_5", "m_6"}
TopX(id) == CASE id = "m_1" -> 80 [] id = "m_2" -> 320 [] id = "m_5" -> 0 [] id = "m_6" -> 560
TopWidth(id) == IF id \in {"m_1", "m_2"} THEN 240 ELSE 80

\* C1: whatever the raster height and the split line, the returned list holds
\* exactly one slice named m_4.png, and it is 640 wide and 480 high.
C1_M4AlwaysReturned ==
    /\ run.pc # "thrown"
    /\ Returned =>
          /\ Cardinality(Named("m_4.png")) = 1
          /\ \A i \in Named("m_4.png") :
                run.result[i].width = 640 /\ run.result[i].height = 480

\* C1, what the code does guarantee: at most one m_4.png, always 640 x 480, and
\* present whenever c4.toBlob produced a blob (the canvas itself is always made).
C1_M4WhenEncoded ==
    Returned =>
        /\ Cardinality(Named("m_4.png")) <= 1
        /\ Cardinality(RastersOf("m_4")) = 1
        /\ \A i \in RastersOf("m_4") :
              run.rasters[i].width = 640 /\ run.rasters[i].height = 480
        /\ \A i \in Named("m_4.png") :
              run.result[i].width = 640 /\ run.result[i].height = 480

\* C2: the top group m_1, m_2, m_5, m_6 is absent when the raster height is 0 and
\* otherwise returned with height min(h, 640), y = 0 and the fixed x and width.
C2_TopGroupReturned ==
    Returned =>
        \A id \in TopGroup :
            IF H = 0 THEN Named(FileName(id)) = {}
            ELSE /\ Cardinality(Named(FileName(id))) = 1
                 /\ \A i \in Named(FileName(id)) :
                       /\ run.result[i].height = (IF H < 640 THEN H ELSE 640)
                       /\ run.result[i].y = 0
                       /\ run.result[i].x = TopX(id)
                       /\ run.result[i].width = TopWidth(id)

\* C2, what the code does guarantee: the four canvases are cut as claimed, and
\* every top-group slice that is returned has the claimed geometry.
C2_TopGroupWhenEncoded ==
    Returned =>
        \A id \in TopGroup :
            /\ Cardinality(RastersOf(id)) = (IF H = 0 THEN 0 ELSE 1)
            /\ \A i \in RastersOf(id) :
                  /\ run.rasters[i].height = (IF H < 640 THEN H ELSE 640)
                  /\ run.rasters[i].width = TopWidth(id)
                  /\ run.rasters[i].drawn.sx = TopX(id)
                  /\ run.rasters[i].drawn.sy = 0
            /\ \A i \in Named(FileName(id)) :
                  /\ run.result[i].height = (IF H < 640 THEN H ELSE 640)
                  /\ run.result[i].y = 0
                  /\ run.result[i].x = TopX(id)
                  /\ run.result[i].width = TopWidth(id)

\* C3: m_3 is returned if and only if min(splitY2, h) - 640 > 0, then with x = 0,
\* y = 640, width 640 and that height; no canvas of height <= 0 is ever cut.
C3_MiddleReturnedIff ==
    Returned =>
        /\ (Named("m_3.png") # {}) <=> ((IF S < H THEN S ELSE H) - 640 > 0)
        /\ \A i \in Named("m_3.png") :
              /\ run.result[i].x = 0 /\ run.result[i].y = 640
              /\ run.result[i].width = 640
              /\ run.result[i].height = (IF S < H THEN S ELSE H) - 640
        /\ \A i \in 1..Len(run.rasters) : run.rasters[i].height > 0

\* C3, what the code does guarantee: the m_3 canvas is cut if and only if the
\* middle band is not empty, and a returned m_3 has the claimed geometry.
C3_MiddleWhenEncoded ==
    Returned =>
        /\ (RastersOf("m_3") # {}) <=> ((IF S < H THEN S ELSE H) - 640 > 0)
        /\ Named("m_3.png") # {} => RastersOf("m_3") # {}
        /\ \A i \in Named("m_3.png") :
              /\ run.result[i].x = 0 /\ run.result[i].y = 640
              /\ run.result[i].width = 640
              /\ run.result[i].height = (IF S < H THEN S ELSE H) - 640
        /\ \A i \in 1..Len(run.rasters) : run.rasters[i].height > 0

\* the content of the m_4 canvas as C4 states it
BottomAsClaimed ==
    LET bs == IF S < H THEN S ELSE H
        avail == H - bs
        filled == IF avail > 0 THEN (IF avail < 480 THEN avail ELSE 480) ELSE 0
    IN  /\ \A i \in Named("m_4.png") : run.result[i].x = 0 /\ run.result[i].y = bs
        /\ Cardinality(RastersOf("m_4")) = 1
        /\ \A i \in RastersOf("m_4") :
              /\ run.rasters[i].drawn.n = filled
              /\ filled > 0 => run.rasters[i].drawn.sy = bs /\ run.rasters[i].drawn.dy = 0
              /\ run.rasters[i].height - run.rasters[i].drawn.n = 480 - filled

\* C4 as stated: for every raster height and every split line, m_4 is reported at
\* x = 0, y = botStart = min(splitY2, h); min(h - botStart, 480) rows (none if that
\* is not positive) are filled, from source rows botStart onward, at the top of
\* m_4, and the other rows stay blank.
C4_BottomFill == Returned => BottomAsClaimed

\* C4 as amended: the same, for every split line splitY2 >= 0.
C4_BottomFillNonNegativeSplit == (Returned /\ S >= 0) => BottomAsClaimed

\* scenario B: h = 900, splitY2 = 800 gives 100 filled and 380 blank rows
C4_Witness ==
    /\ Returned /\ H = 900 /\ S = 800
    /\ \E i \in RastersOf("m_4") :
          run.rasters[i].drawn.n = 100 /\ run.rasters[i].drawn.sy = 800
          /\ run.rasters[i].height = 480

\* C5: when the encoding of a region fails, processSlices does not return a list
\* from which that region is missing (every canvas that was cut is in the list).
C5_NoSilentOmission ==
    Returned =>
        \A i \in 1..Len(run.rasters) : Named(FileName(run.rasters[i].name)) # {}

NameOrder == <<"m_1.png", "m_2.png", "m_3.png", "m_4.png", "m_5.png", "m_6.png">>
Rank(name) == CHOOSE k \in 1..Len(NameOrder) : NameOrder[k] = name

\* C6: the returned list is in ascending order of file name with no name twice,
\* and holds exactly the slices that were pushed, whatever the extraction order.
C6_SortedByName ==
    Returned =>
        /\ \A i, j \in 1..Len(run.result) :
              i < j => Rank(run.result[i].name) < Rank(run.result[j].name)
        /\ {run.result[i] : i \in 1..Len(run.result)}
              = {run.slices[i] : i \in 1..Len(run.slices)}
        /\ Len(run.result) = Len(run.slices)

\* all six regions returned, m_5 having been pushed first
C6_Witness ==
    /\ Returned /\ Len(run.result) = 6
    /\ run.slices[1].name = "m_5.png" /\ run.result[1].name = "m_1.png"
    /\ run.result[5].name = "m_5.png"

\* the bands as C10 states them
BandsAsClaimed ==
    /\ RowsRead(TopGroup) \subseteq 0..639
    /\ RowsRead({"m_3"}) \subseteq 640..(S - 1)
    /\ \A y \in RowsRead({"m_4"}) : y >= 640 /\ y >= S
    /\ RowsRead(TopGroup) \cap RowsRead({"m_3"}) = {}
    /\ RowsRead(TopGroup) \cap RowsRead({"m_4"}) = {}
    /\ RowsRead({"m_3"}) \cap RowsRead({"m_4"}) = {}

\* C10 as stated: for every raster height and every split line the three bands
\* read pairwise disjoint source rows: the top group within [0, 640), m_3 within
\* [640, splitY2), m_4 at or below both 640 and splitY2.
C10_BandsDisjoint == InFlight => BandsAsClaimed

\* C10 as amended: the same for every split line splitY2 >= 640; for any split
\* line the top group stays within [0, 640), m_3 within [640, splitY2), and m_3
\* shares no row with the top group or with m_4.
C10_BandsDisjointFromSplitY1 ==
    InFlight =>
        /\ S >= 640 => BandsAsClaimed
        /\ RowsRead(TopGroup) \subseteq 0..639
        /\ RowsRead({"m_3"}) \subseteq 640..(S - 1)
        /\ RowsRead(TopGroup) \cap RowsRead({"m_3"}) = {}
        /\ RowsRead({"m_3"}) \cap RowsRead({"m_4"}) = {}

\* all three bands have read rows
C10_Witness ==
    /\ Returned /\ S >= 640
    /\ RowsRead(TopGroup) # {} /\ RowsRead({"m_3"}) # {} /\ RowsRead({"m_4"}) # {}

----------------------------------------------------------------------------
(* Properties of resizeImageTo640 (checked under SpecResize)               *)

\* the image the normalized raster was made from
Src == images[canvas.of]

----------------------------------------------------------------------------
(* Properties of the application (checked under Spec)                      *)

Invalid(img) == ~img.ok \/ img.w = 0 \/ img.h = 0

\* C8: a file whose image has a zero dimension or cannot be decoded fails with an
\* error: once its load has settled an alert names it, no normalized raster is
\* stored for it, no run cuts it and no slice of it is displayed.
C8_InvalidInputRejected ==
    \A f \in 1..Len(images) :
        Invalid(images[f]) =>
            /\ f \notin loads => \E a \in alerts : a.f = f
            /\ canvas.of # f
            /\ run.pc # "idle" => run.sourceCanvas.of # f
            /\ shown # f

\* C9: whenever slices are displayed, they were cut from the raster of the file
\* that is currently selected.
C9_SlicesOfSelectedFile == slices # <<>> => shown = file

====
